---- MODULE Spec2Model ----
(***************************************************************************)
(* A model of yada, a static double-array trie: the 32-bit unit codec      *)
(* (src/src/unit.rs), the builder with its 256-cell blocks and free lists  *)
(* (src/src/builder.rs) and the reader (src/src/lib.rs).                   *)
(*                                                                         *)
(* A u32 is the record [msb, low]: bit 31 and bits 0..30, so that every    *)
(* number TLC handles stays below 2^31.  Offsets, unit ids and labels are  *)
(* plain naturals (the code keeps them below 2^30).                        *)
(*                                                                         *)
(* A 256-entry array of a block, and the byte vector of an image, is kept  *)
(* as the entries that differ from its initial contents (a function on     *)
(* those indices): Get reads through to the initial contents, Put writes.  *)
(***************************************************************************)
EXTENDS Integers, Sequences, FiniteSets, TLC

\* ------------------------------------------------------------------ bounds
MaxKeys == 2
MaxKeyLen == 2
MaxProbeLen == 3
MaxTruncLen == 5
\* how many iterations of a search loop are evaluated in one go
FuelStep == 16

\* the bytes keys and probes are made of: the terminator, 'a' and 'b'
KeyBytes == {0, 97, 98}
\* the values of a keyset: a 31-bit value and one with bit 31 set
U32(msb, low) == [msb |-> msb, low |-> low]
Values == {U32(0, 5), U32(1, 7)}

\* ------------------------------------------------------- program constants
BLOCK_SIZE == 256
NUM_TARGET_BLOCKS == 16
INVALID_NEXT == 0
INVALID_PREV == 255
UNIT_SIZE == 4

\* -------------------------------------------------------------- bit tricks
Pow2_8 == 256
Pow2_9 == 512
Pow2_10 == 1024
Pow2_21 == 2097152
Pow2_29 == 536870912

RECURSIVE BitXor(_, _)
BitXor(a, b) ==
    IF a = 0 THEN b
    ELSE IF b = 0 THEN a
    ELSE (((a % 2) + (b % 2)) % 2) + 2 * BitXor(a \div 2, b \div 2)

RECURSIVE BitAnd(_, _)
BitAnd(a, b) ==
    IF a = 0 \/ b = 0 THEN 0
    ELSE ((a % 2) * (b % 2)) + 2 * BitAnd(a \div 2, b \div 2)

RECURSIVE BitOr(_, _)
BitOr(a, b) ==
    IF a = 0 THEN b
    ELSE IF b = 0 THEN a
    ELSE (IF a % 2 = 1 \/ b % 2 = 1 THEN 1 ELSE 0) + 2 * BitOr(a \div 2, b \div 2)

\* ------------------------------------------------------------ unit.rs codec
\* Unit::new: the zero word
Unit_new == U32(0, 0)

\* self.0 >> 8 & 1 == 1
has_leaf(w) == (w.low \div Pow2_8) % 2 = 1

\* self.0 >> 31 == 1
is_leaf(w) == w.msb = 1

\* self.0 & 0x7FFFFFFF
value(w) == w.low

\* self.0 & ((1 << 31) | 0xFF), a u32: bit 31 and the low byte
label(w) == U32(w.msb, w.low % Pow2_8)

\* (self.0 >> 10) << ((self.0 & (1 << 9)) >> 6); the result is below 2^30
offset(w) ==
    LET shifted == (w.msb * Pow2_21) + (w.low \div Pow2_10)
        extend  == (w.low \div Pow2_9) % 2 = 1
    IN  IF extend THEN shifted * Pow2_8 ELSE shifted

\* set_offset keeping the low ten bits of the word instead of the low nine
set_offset_keep10(w, o) ==
    IF ~(o < Pow2_29) THEN [ok |-> FALSE, w |-> w]
    ELSE IF o < Pow2_21
         THEN [ok |-> TRUE, w |-> U32(0, (o * Pow2_10) + (w.low % Pow2_10))]
         ELSE IF o % Pow2_8 # 0 THEN [ok |-> FALSE, w |-> w]
              ELSE [ok |-> TRUE, w |-> U32(0, (o * 4) + Pow2_9 + (w.low % Pow2_9))]

\* set_offset: [ok |-> FALSE] when one of its assertions fires
set_offset(w, o) ==
    IF ~(o < Pow2_29) THEN [ok |-> FALSE, w |-> w]
    ELSE IF o < Pow2_21
         THEN [ok |-> TRUE, w |-> U32(0, (o * Pow2_10) + (w.low % Pow2_9))]
         ELSE \* (o << 2) & (1 << 31) == 0 follows from o < 2^29
              IF o % Pow2_8 # 0 THEN [ok |-> FALSE, w |-> w]
              ELSE [ok |-> TRUE, w |-> U32(0, (o * 4) + Pow2_9 + (w.low % Pow2_9))]

set_has_leaf(w, flag) ==
    IF flag
    THEN IF has_leaf(w) THEN w ELSE U32(w.msb, w.low + Pow2_8)
    ELSE IF has_leaf(w) THEN U32(w.msb, w.low - Pow2_8) ELSE w

\* (self.0 >> 8) << 8 | label
set_label(w, l) == U32(w.msb, (w.low \div Pow2_8) * Pow2_8 + l)

\* value | 1 << 31, for a u32 value
set_value(w, v) == U32(1, v.low)

\* the four bytes most significant first
to_be_bytes(w) ==
    << (w.low \div 16777216) + (128 * w.msb),
       (w.low \div 65536) % 256,
       (w.low \div 256) % 256,
       w.low % 256 >>

\* u32::to_le_bytes and u32::from_le_bytes
to_le_bytes(w) ==
    << w.low % 256,
       (w.low \div 256) % 256,
       (w.low \div 65536) % 256,
       (w.low \div 16777216) + (128 * w.msb) >>

from_le_bytes(b) ==
    U32(b[4] \div 128,
        b[1] + (256 * b[2]) + (65536 * b[3]) + (16777216 * (b[4] % 128)))

\* ------------------------------------------------- builder.rs: one block
DEFAULT_UNITS == [i \in 0..(BLOCK_SIZE - 1) |-> Unit_new]

DEFAULT_IS_USED == [i \in 0..(BLOCK_SIZE - 1) |-> FALSE]

DEFAULT_NEXT_UNUSED ==
    [i \in 0..(BLOCK_SIZE - 1) |-> IF i < BLOCK_SIZE - 1 THEN i + 1 ELSE INVALID_NEXT]

DEFAULT_PREV_UNUSED ==
    [i \in 0..(BLOCK_SIZE - 1) |-> IF i >= 1 THEN i - 1 ELSE INVALID_PREV]

\* an array as its differences `d` from its initial contents `init`
NoDiff == [i \in {} |-> 0]
Get(d, init, i) == IF i \in DOMAIN d THEN d[i] ELSE init[i]
Put(d, init, i, v) ==
    IF v = init[i] THEN [j \in (DOMAIN d) \ {i} |-> d[j]]
    ELSE [j \in (DOMAIN d) \cup {i} |-> IF j = i THEN v ELSE d[j]]

\* DoubleArrayBlock::new
DoubleArrayBlock_new(id) ==
    [ id          |-> id,
      units       |-> NoDiff,
      is_used     |-> NoDiff,
      head_unused |-> 0,
      next_unused |-> NoDiff,
      prev_unused |-> NoDiff ]

\* block.units[i], block.is_used[i], block.next_unused[i], block.prev_unused[i]
units_at(block, i)       == Get(block.units, DEFAULT_UNITS, i)
is_used_at(block, i)     == Get(block.is_used, DEFAULT_IS_USED, i)
next_unused_at(block, i) == Get(block.next_unused, DEFAULT_NEXT_UNUSED, i)
prev_unused_at(block, i) == Get(block.prev_unused, DEFAULT_PREV_UNUSED, i)

\* reserve that leaves prev_unused of the following unused cell as it was
block_reserve_no_prev(block, id) ==
    LET prev_id == prev_unused_at(block, id)
        next_id == next_unused_at(block, id)
        next1 == IF prev_id # INVALID_PREV
                 THEN Put(block.next_unused, DEFAULT_NEXT_UNUSED, prev_id, next_id)
                 ELSE block.next_unused
    IN  [ block EXCEPT
            !.is_used     = Put(@, DEFAULT_IS_USED, id, TRUE),
            !.next_unused = Put(next1, DEFAULT_NEXT_UNUSED, id, INVALID_NEXT),
            !.prev_unused = Put(@, DEFAULT_PREV_UNUSED, id, INVALID_PREV),
            !.head_unused = IF id = block.head_unused THEN next_id ELSE @ ]

\* DoubleArrayBlock::reserve, statement by statement
block_reserve(block, id) ==
    LET prev_id == prev_unused_at(block, id)
        next_id == next_unused_at(block, id)
        next1 == IF prev_id # INVALID_PREV
                 THEN Put(block.next_unused, DEFAULT_NEXT_UNUSED, prev_id, next_id)
                 ELSE block.next_unused
        next2 == Put(next1, DEFAULT_NEXT_UNUSED, id, INVALID_NEXT)
        prev1 == IF next_id # INVALID_NEXT
                 THEN Put(block.prev_unused, DEFAULT_PREV_UNUSED, next_id, prev_id)
                 ELSE block.prev_unused
        prev2 == Put(prev1, DEFAULT_PREV_UNUSED, id, INVALID_PREV)
    IN  [ block EXCEPT
            !.is_used     = Put(@, DEFAULT_IS_USED, id, TRUE),
            !.next_unused = next2,
            !.prev_unused = prev2,
            !.head_unused = IF id = block.head_unused THEN next_id ELSE @ ]

\* is_valid_offset without the test of the relative offset
is_valid_offset_no_width(block, unit_id, labels, off) ==
    \A k \in 2..Len(labels) : ~is_used_at(block, BitXor(off, labels[k]))

\* is_valid_offset without the test of the cells of the labels after the first
is_valid_offset_first_only(block, unit_id, labels, off) ==
    ~(/\ BitAnd(BitXor(unit_id, BitOr(block.id * Pow2_8, off)), 255 * Pow2_21) > 0
      /\ BitAnd(BitXor(unit_id, BitOr(block.id * Pow2_8, off)), 255) > 0)

\* FindOffset::is_valid_offset
is_valid_offset(block, unit_id, labels, off) ==
    LET offset_u32      == BitOr(block.id * Pow2_8, off)
        relative_offset == BitXor(unit_id, offset_u32)
    IN  IF BitAnd(relative_offset, 255 * Pow2_21) > 0 /\ BitAnd(relative_offset, 255) > 0
        THEN FALSE
        ELSE \A k \in 2..Len(labels) : ~is_used_at(block, BitXor(off, labels[k]))

AllUsed(block) == \A i \in 0..(BLOCK_SIZE - 1) : is_used_at(block, i)

\* Up to n iterations of the loop of FindOffset::next from the cell unused_id.
\* The result is
\*   [tag |-> "Some", item, unused_id]  a candidate, and where the iterator stands
\*   [tag |-> "None", unused_id]        the iterator is exhausted
\*   [tag |-> "panic"]                  the loop's assertion fired
\*   [tag |-> "Run", unused_id]         the loop is still running after n iterations
RECURSIVE FindOffset_iterate(_, _, _, _, _)

\* the loop taking the unused cell itself as the candidate
RECURSIVE FindOffset_iterate_cell(_, _, _, _, _)
FindOffset_iterate_cell(block, unit_id, labels, unused_id, n) ==
    IF n = 0 THEN [tag |-> "Run", unused_id |-> unused_id]
    ELSE IF is_used_at(block, unused_id) THEN [tag |-> "panic"]
    ELSE LET valid == is_valid_offset(block, unit_id, labels, unused_id)
             nxt   == next_unused_at(block, unused_id)
         IN  IF valid THEN [tag |-> "Some", item |-> unused_id, unused_id |-> nxt]
             ELSE IF nxt = INVALID_NEXT THEN [tag |-> "None", unused_id |-> nxt]
             ELSE FindOffset_iterate_cell(block, unit_id, labels, nxt, n - 1)

FindOffset_iterate(block, unit_id, labels, unused_id, n) ==
    IF n = 0 THEN [tag |-> "Run", unused_id |-> unused_id]
    ELSE IF is_used_at(block, unused_id) THEN [tag |-> "panic"]
    ELSE LET off   == BitXor(unused_id, labels[1])
             valid == is_valid_offset(block, unit_id, labels, off)
             nxt   == next_unused_at(block, unused_id)
         IN  IF valid THEN [tag |-> "Some", item |-> off, unused_id |-> nxt]
             ELSE IF nxt = INVALID_NEXT THEN [tag |-> "None", unused_id |-> nxt]
             ELSE FindOffset_iterate(block, unit_id, labels, nxt, n - 1)

\* The loop of FindOffset::next, run FuelStep iterations at a time: r is what
\* the last FuelStep iterations came to.  A loop that has not ended after more
\* iterations than the block has cells walks a cycle of the free list and never
\* ends ("hang").
RECURSIVE FindOffset_loop(_, _, _, _, _)

FindOffset_resume(block, unit_id, labels, fuel, r) ==
    IF r.tag # "Run" THEN r
    ELSE IF fuel = 0 THEN [tag |-> "hang"]
    ELSE FindOffset_loop(block, unit_id, labels, r.unused_id, fuel - 1)

FindOffset_loop(block, unit_id, labels, unused_id, fuel) ==
    FindOffset_resume(block, unit_id, labels, fuel,
                      FindOffset_iterate(block, unit_id, labels, unused_id, FuelStep))

\* FindOffset::next
FindOffset_next(block, unit_id, labels, unused_id) ==
    IF unused_id = INVALID_NEXT /\ is_used_at(block, unused_id)
    THEN [tag |-> "None", unused_id |-> unused_id]
    ELSE IF block.head_unused = INVALID_NEXT /\ is_used_at(block, 0)
    THEN IF AllUsed(block) THEN [tag |-> "None", unused_id |-> unused_id]
         ELSE [tag |-> "panic"]
    ELSE IF AllUsed(block) THEN [tag |-> "panic"]
    ELSE FindOffset_loop(block, unit_id, labels, unused_id, BLOCK_SIZE \div FuelStep)

\* ------------------------------------------------ builder.rs: the builder
\* extend_block / extend_block_mut
extend_block(blocks) == Append(blocks, DoubleArrayBlock_new(Len(blocks)))

\* the `while self.get_block(unit_id).is_none() { self.extend_block_mut(); }` loop
RECURSIVE ensure_block(_, _)
ensure_block(blocks, unit_id) ==
    IF unit_id \div BLOCK_SIZE < Len(blocks) THEN blocks
    ELSE ensure_block(extend_block(blocks), unit_id)

\* the unit get_unit_mut hands out, and the write through it (blocks are 0-based
\* in the code, sequences 1-based here)
get_unit_mut(blocks, unit_id) ==
    units_at(blocks[(unit_id \div BLOCK_SIZE) + 1], unit_id % BLOCK_SIZE)

write_unit(blocks, unit_id, w) ==
    [blocks EXCEPT ![(unit_id \div BLOCK_SIZE) + 1].units =
                        Put(@, DEFAULT_UNITS, unit_id % BLOCK_SIZE, w)]

\* DoubleArrayBuilder::reserve
reserve(blocks, unit_id) ==
    LET bs == ensure_block(blocks, unit_id)
        b  == (unit_id \div BLOCK_SIZE) + 1
    IN  [bs EXCEPT ![b] = block_reserve(bs[b], unit_id % BLOCK_SIZE)]

\* The closure of DoubleArrayBuilder::find_offset on one block, for up to n
\* candidates: the first candidate of the block's iterator that is not in
\* used_offsets.  `seen` holds the iterator positions next() was already called
\* at: calling it there again repeats the same candidates for ever ("hang").
RECURSIVE block_offsets(_, _, _, _, _, _, _)

\* the body of its `for` loop for the result r of next()
block_candidate(block, unit_id, labels, used_offsets, unused_id, seen, n, r) ==
    IF r.tag # "Some" THEN [tag |-> r.tag]
    ELSE IF BitOr(block.id * Pow2_8, r.item) \notin used_offsets
    THEN [tag |-> "Some", offset |-> BitOr(block.id * Pow2_8, r.item)]
    ELSE block_offsets(block, unit_id, labels, used_offsets,
                       r.unused_id, seen \cup {unused_id}, n - 1)

block_offsets(block, unit_id, labels, used_offsets, unused_id, seen, n) ==
    IF unused_id \in seen THEN [tag |-> "hang"]
    ELSE IF n = 0 THEN [tag |-> "Run", unused_id |-> unused_id, seen |-> seen]
    ELSE block_candidate(block, unit_id, labels, used_offsets, unused_id, seen, n,
                         FindOffset_next(block, unit_id, labels, unused_id))

\* the same, FuelStep candidates at a time: r is what the last FuelStep came to
RECURSIVE block_first_offset(_, _, _, _, _, _)

block_first_offset_resume(block, unit_id, labels, used_offsets, r) ==
    IF r.tag = "Run"
    THEN block_first_offset(block, unit_id, labels, used_offsets, r.unused_id, r.seen)
    ELSE r

\* block_first_offset without the used_offsets test: the first candidate
block_first_offset_any(block, unit_id, labels, used_offsets, unused_id, seen) ==
    block_candidate(block, unit_id, labels, {}, unused_id, seen, 1,
                    FindOffset_next(block, unit_id, labels, unused_id))

block_first_offset(block, unit_id, labels, used_offsets, unused_id, seen) ==
    block_first_offset_resume(block, unit_id, labels, used_offsets,
        block_offsets(block, unit_id, labels, used_offsets, unused_id, seen, FuelStep))

\* find_map over the blocks from the b-th on: r is the closure's result on it
RECURSIVE find_offset_from(_, _, _, _, _)

find_offset_else(blocks, used_offsets, unit_id, labels, b, r) ==
    IF r.tag = "None"
    THEN find_offset_from(blocks, used_offsets, unit_id, labels, b + 1)
    ELSE r

find_offset_from(blocks, used_offsets, unit_id, labels, b) ==
    IF b > Len(blocks) THEN [tag |-> "None"]
    ELSE find_offset_else(blocks, used_offsets, unit_id, labels, b,
             block_first_offset(blocks[b], unit_id, labels, used_offsets,
                                blocks[b].head_unused, {}))

\* DoubleArrayBuilder::find_offset: the last NUM_TARGET_BLOCKS blocks, in order
find_offset(blocks, used_offsets, unit_id, labels) ==
    LET head_block == IF Len(blocks) - NUM_TARGET_BLOCKS > 0
                      THEN Len(blocks) - NUM_TARGET_BLOCKS ELSE 0
    IN  find_offset_from(blocks, used_offsets, unit_id, labels, head_block + 1)

\* `loop { find_offset ... extend_block }` of build_recursive: r is what
\* find_offset returned on `blocks`
RECURSIVE search_offset(_, _, _, _)

search_offset_else(blocks, used_offsets, unit_id, labels, r) ==
    IF r.tag = "None"
    THEN search_offset(extend_block(blocks), used_offsets, unit_id, labels)
    ELSE [tag |-> r.tag, blocks |-> blocks,
          offset |-> IF r.tag = "Some" THEN r.offset ELSE 0]

search_offset(blocks, used_offsets, unit_id, labels) ==
    search_offset_else(blocks, used_offsets, unit_id, labels,
                       find_offset(blocks, used_offsets, unit_id, labels))

\* The first loop of build_recursive (lines 126-151) from index i on: the runs
\* of equal labels at `depth` and the value of the key that ends there.
\* An Option is a sequence of length 0 or 1.
RECURSIVE scan_labels(_, _, _, _, _, _)
scan_labels(keyset, depth, i, end, labels, val) ==
    IF i >= end THEN [tag |-> "Ok", labels |-> labels, val |-> val]
    ELSE LET key == keyset[i + 1].key
         IN  IF depth > Len(key) THEN [tag |-> "None"]      \* key.get(depth)?
             ELSE LET l == IF depth = Len(key) THEN 0 ELSE key[depth + 1]
                  IN  IF l = 0 /\ val # <<>> THEN [tag |-> "panic"]
                      ELSE LET val2 == IF l = 0 THEN <<keyset[i + 1].value>> ELSE val
                               n    == Len(labels)
                               labels2 ==
                                   IF n = 0
                                   THEN <<[label |-> l, begin |-> i, end |-> 0]>>
                                   ELSE IF labels[n].label # l
                                   THEN Append([labels EXCEPT ![n].end = i],
                                               [label |-> l, begin |-> i, end |-> 0])
                                   ELSE labels
                           IN  scan_labels(keyset, depth, i + 1, end, labels2, val2)

\* The loop that populates the children (lines 193-211) from labels_[k] on
RECURSIVE populate_children(_, _, _, _, _)

\* its body once the child is reserved: `unit` is the child's unit
populate_child(bs, off, labels_, val, k, child_id, unit) ==
    IF \/ offset(unit) # 0
       \/ label(unit) # U32(0, 0)
       \/ value(unit) # 0
       \/ has_leaf(unit)
    THEN [tag |-> "panic", blocks |-> bs]
    ELSE IF labels_[k] = 0
    THEN IF val = <<>> THEN [tag |-> "panic", blocks |-> bs]
         ELSE populate_children(write_unit(bs, child_id, set_value(unit, val[1])),
                                off, labels_, val, k + 1)
    ELSE populate_children(write_unit(bs, child_id, set_label(unit, labels_[k])),
                           off, labels_, val, k + 1)

populate_reserved(bs, off, labels_, val, k, child_id) ==
    populate_child(bs, off, labels_, val, k, child_id, get_unit_mut(bs, child_id))

\* the loop without the reservation of the cell of a terminator
populate_children_leaf_free(blocks, off, labels_, val, k) ==
    IF k > Len(labels_) THEN [tag |-> "Ok", blocks |-> blocks]
    ELSE populate_reserved(IF labels_[k] = 0 THEN blocks
                           ELSE reserve(blocks, BitXor(off, labels_[k])),
                           off, labels_, val, k, BitXor(off, labels_[k]))

populate_children(blocks, off, labels_, val, k) ==
    IF k > Len(labels_) THEN [tag |-> "Ok", blocks |-> blocks]
    ELSE populate_reserved(reserve(blocks, BitXor(off, labels_[k])),
                           off, labels_, val, k, BitXor(off, labels_[k]))

\* One invocation of build_recursive up to its recursive calls.  The result is
\*   tag "None"   the invocation returned None (key.get(depth)?)
\*   tag "panic"  an assertion fired;  tag "hang"  the offset search never ends
\*   tag "Ok"     the parent and its children are written; `calls` are the
\*                recursive calls it goes on to make, in order
\* `accepted` is the offset it inserted into used_offsets, if it got that far.
\*
\* Its end (lines 193-222): kids is what populating the children came to
build_children(after, depth, labels, off, kids) ==
    IF kids.tag # "Ok"
    THEN [after EXCEPT !.blocks = kids.blocks] @@ [tag |-> "panic"]
    ELSE [ tag          |-> "Ok",
           blocks       |-> kids.blocks,
           used_offsets |-> after.used_offsets,
           accepted     |-> after.accepted,
           labels       |-> after.labels,
           calls        |->
               [k \in 1..Len(labels) |->
                   [ depth   |-> depth + 1,
                     begin   |-> labels[k].begin,
                     end     |-> labels[k].end,
                     unit_id |-> BitXor(labels[k].label, off) ]] ]

\* Lines 168-222: found is what the offset search came to
build_accept(same, depth, unit_id, labels, labels_, val, found) ==
    IF found.tag # "Some" THEN same @@ [tag |-> found.tag]
    ELSE IF ~(found.offset < Pow2_29) THEN same @@ [tag |-> "panic"]
    ELSE
    LET off       == found.offset
        has_leaf_ == labels_[1] = 0
        parent    == get_unit_mut(found.blocks, unit_id)
        after     == [blocks |-> found.blocks,
                      used_offsets |-> same.used_offsets \cup {off},
                      calls |-> <<>>, accepted |-> <<off>>, labels |-> labels_]
        so        == set_offset(parent, BitXor(off, unit_id))
    IN  IF offset(parent) # 0 THEN after @@ [tag |-> "panic"]
        ELSE IF ~so.ok THEN after @@ [tag |-> "panic"]
        ELSE IF has_leaf(so.w) THEN after @@ [tag |-> "panic"]
        ELSE build_children(after, depth, labels, off,
                 populate_children(
                     write_unit(found.blocks, unit_id, set_has_leaf(so.w, has_leaf_)),
                     off, labels_, val, 1))

\* Lines 152-222: scan is what the first loop came to
build_scanned(same, depth, end, unit_id, scan) ==
    IF scan.tag # "Ok" THEN same @@ [tag |-> scan.tag]
    ELSE IF Len(scan.labels) = 0 THEN same @@ [tag |-> "panic"]
    ELSE
    LET n       == Len(scan.labels)
        labels  == [scan.labels EXCEPT ![n].end = end]
        labels_ == [k \in 1..n |-> labels[k].label]
    IN  build_accept(same, depth, unit_id, labels, labels_, scan.val,
                     search_offset(same.blocks, same.used_offsets, unit_id, labels_))

build_recursive(blocks, used_offsets, keyset, depth, begin, end, unit_id) ==
    build_scanned([blocks |-> blocks, used_offsets |-> used_offsets, calls |-> <<>>,
                   accepted |-> <<>>, labels |-> <<>>],
                  depth, end, unit_id,
                  scan_labels(keyset, depth, begin, end, <<>>, <<>>))

\* A byte vector: its length and its non-zero bytes by 0-based position
ByteAt(bytes, p) == IF p \in DOMAIN bytes.nz THEN bytes.nz[p] ELSE 0
NoBytes == [len |-> 0, nz |-> NoDiff]
Truncated(bytes, n) ==
    [len |-> n, nz |-> [p \in {q \in DOMAIN bytes.nz : q < n} |-> bytes.nz[p]]]

\* the byte at position p of the serialization loop of build_from_keyset
\* (lines 45-51): the units of every block in order, each as its four
\* little-endian bytes
serialized_byte(blocks, p) ==
    LET cell == p \div UNIT_SIZE
    IN  to_le_bytes(units_at(blocks[(cell \div BLOCK_SIZE) + 1], cell % BLOCK_SIZE))
            [(p % UNIT_SIZE) + 1]

serialize(blocks) ==
    LET len == Len(blocks) * BLOCK_SIZE * UNIT_SIZE
    IN  [ len |-> len,
          nz  |-> [p \in {q \in 0..(len - 1) : serialized_byte(blocks, q) # 0} |->
                      serialized_byte(blocks, p)] ]

\* num_units and num_used_units
num_units(blocks) == Len(blocks) * BLOCK_SIZE

RECURSIVE num_used_units_from(_, _)
num_used_units_from(blocks, b) ==
    IF b > Len(blocks) THEN 0
    ELSE Cardinality({i \in 0..(BLOCK_SIZE - 1) : is_used_at(blocks[b], i)})
         + num_used_units_from(blocks, b + 1)

num_used_units(blocks) == num_used_units_from(blocks, 1)

\* ------------------------------------------------------- lib.rs: the reader
\* DoubleArray::get_unit on the bytes `bytes`: the slice expression
\* bytes[index * 4 .. (index + 1) * 4] aborts the program when it ends beyond the
\* bytes (tag "oob"); a slice it does produce has four bytes, so try_into is Ok.
\* (index + 1) * 4 <= len is written index + 1 <= len / 4 to stay below 2^31.
get_unit(bytes, index) ==
    IF index + 1 > bytes.len \div UNIT_SIZE THEN [tag |-> "oob"]
    ELSE LET b == [k \in 1..UNIT_SIZE |-> ByteAt(bytes, (index * UNIT_SIZE) + k - 1)]
         IN  IF Len(b) = UNIT_SIZE
             THEN [tag |-> "Some", unit |-> from_le_bytes(b)]
             ELSE [tag |-> "None"]

\* the for loop of exact_match_search_bytes over key[k .. n] (1-based), from
\* the node node_pos: where it ends, or how it returns
RECURSIVE exact_loop(_, _, _, _, _)
exact_loop(bytes, key, k, n, node_pos) ==
    IF k > n THEN [tag |-> "Go", node_pos |-> node_pos]
    ELSE LET c == key[k]
         IN  IF c = 0 THEN [tag |-> "panic"]                    \* assert_ne!(c, 0)
             ELSE LET u1 == get_unit(bytes, node_pos)
                  IN  IF u1.tag # "Some" THEN [tag |-> u1.tag]
                      ELSE IF is_leaf(u1.unit) THEN [tag |-> "panic"]
                      ELSE LET pos2 == BitXor(offset(u1.unit), c)
                               u2   == get_unit(bytes, pos2)
                           IN  IF u2.tag # "Some" THEN [tag |-> u2.tag]
                               ELSE IF c # label(u2.unit).low % Pow2_8  \* label() as u8
                               THEN [tag |-> "None"]
                               ELSE exact_loop(bytes, key, k + 1, n, pos2)

\* exact_match_search_bytes.  key.len() - 1 underflows on the empty key: with
\* overflow checks the subtraction aborts, without them it wraps and take()
\* takes the whole (empty) key.
\*
\* Its end (lines 56-60): leaf is the unit fetched at offset ^ c
exact_leaf(leaf) ==
    IF leaf.tag # "Some" THEN [tag |-> leaf.tag]
    ELSE IF ~is_leaf(leaf.unit) THEN [tag |-> "panic"]
    ELSE [tag |-> "Some", value |-> value(leaf.unit)]

\* Lines 47-60: u is the unit fetched at the node the loop ended on
exact_last(bytes, key, u) ==
    IF u.tag # "Some" THEN [tag |-> u.tag]
    ELSE IF ~has_leaf(u.unit) THEN [tag |-> "None"]
    ELSE IF Len(key) = 0 THEN [tag |-> "panic"]             \* key.last().unwrap()
    ELSE IF key[Len(key)] # 0 THEN [tag |-> "panic"]        \* assert_eq!(c, 0)
    ELSE exact_leaf(get_unit(bytes, BitXor(offset(u.unit), key[Len(key)])))

\* Lines 46-60: walk is what the for loop came to
exact_after_loop(bytes, key, walk) ==
    IF walk.tag # "Go" THEN [tag |-> walk.tag]
    ELSE exact_last(bytes, key, get_unit(bytes, walk.node_pos))

exact_match_search_bytes(bytes, key, overflow_checks) ==
    IF Len(key) = 0 /\ overflow_checks THEN [tag |-> "panic"]
    ELSE exact_after_loop(bytes, key,
             exact_loop(bytes, key, 1, IF Len(key) = 0 THEN 0 ELSE Len(key) - 1, 0))

\* CommonPrefixSearch::next from the iterator state (unit_id, key_pos):
\* the item it returns and the state it leaves
RECURSIVE CommonPrefixSearch_next(_, _, _, _)
CommonPrefixSearch_next(bytes, key, unit_id, key_pos) ==
    IF ~(key_pos < Len(key))
    THEN [tag |-> "None", unit_id |-> unit_id, key_pos |-> key_pos]
    ELSE LET u1 == get_unit(bytes, unit_id)
         IN  IF u1.tag # "Some"
             THEN [tag |-> u1.tag, unit_id |-> unit_id, key_pos |-> key_pos]
             ELSE
             LET c    == key[key_pos + 1]
                 pos2 == key_pos + 1
                 id2  == BitXor(offset(u1.unit), c)
                 u2   == get_unit(bytes, id2)
             IN  IF u2.tag # "Some"
                 THEN [tag |-> u2.tag, unit_id |-> id2, key_pos |-> pos2]
                 ELSE IF label(u2.unit) # U32(0, c)
                 THEN [tag |-> "None", unit_id |-> id2, key_pos |-> pos2]
                 ELSE IF has_leaf(u2.unit)
                 THEN LET leaf == get_unit(bytes, offset(u2.unit))
                      IN  IF leaf.tag # "Some"
                          THEN [tag |-> leaf.tag, unit_id |-> id2, key_pos |-> pos2]
                          ELSE [tag |-> "Some", unit_id |-> id2, key_pos |-> pos2,
                                item |-> <<value(leaf.unit), pos2>>]
                 ELSE CommonPrefixSearch_next(bytes, key, id2, pos2)

\* ------------------------------------------------------------ the program
Seqs(S, n) == UNION {[1..m -> S] : m \in 0..n}
Min(a, b) == IF a < b THEN a ELSE b
Keys    == Seqs(KeyBytes, MaxKeyLen)
Entries == [key : Keys, value : Values]
Keysets == Seqs(Entries, MaxKeys)
Probes  == Seqs(KeyBytes, MaxProbeLen)

VARIABLES
    pc,            \* "new", "building", "built" (build returned Some), "none"
                   \* (it returned None), "panic", "hang", "aborted" (a query aborted)
    keyset,        \* the keyset handed to build_from_keyset
    blocks,        \* DoubleArrayBuilder.blocks
    used_offsets,  \* DoubleArrayBuilder.used_offsets
    stack,         \* the build_recursive calls still to run, innermost first
    assigned,      \* history: the (parent unit, labels, offset) triples accepted so far
    image,         \* the bytes build returned
    da_len,        \* the DoubleArray in use holds the first da_len bytes of image
    query,         \* the last exact_match_search and its result
    iter,          \* the live CommonPrefixSearch iterator
    unit,          \* a Unit on its own, with the last setter applied to it
    block,         \* a DoubleArrayBlock on its own
    finder         \* the live FindOffset iterator over block

vars == <<pc, keyset, blocks, used_offsets, stack, assigned, image, da_len, query, iter,
          unit, block, finder>>

\* the builder and the reader, and the parts exercised on their own
prog  == <<pc, keyset, blocks, used_offsets, stack, assigned, image, da_len, query, iter>>
bench == <<unit, block, finder>>

\* a result tag that ends the program: a failed assertion or unwrap ("panic"),
\* a slice beyond the bytes ("oob")
Aborts(tag) == tag \in {"panic", "oob"}

NoQuery  == [op |-> "none"]
NoIter   == [op |-> "none"]
NoSetter == [op |-> "new", w |-> Unit_new, was |-> Unit_new, arg |-> 0, ok |-> TRUE]
NoFinder == [op |-> "none"]

\* the bytes of the DoubleArray in use
da == Truncated(image, da_len)

\* DoubleArrayBuilder::new
Init ==
    /\ pc = "new"
    /\ keyset = <<>>
    /\ blocks = <<DoubleArrayBlock_new(0)>>
    /\ used_offsets = {}
    /\ stack = <<>>
    /\ assigned = <<>>
    /\ image = NoBytes
    /\ da_len = 0
    /\ query = NoQuery
    /\ iter = NoIter
    /\ unit = NoSetter
    /\ block = DoubleArrayBlock_new(0)
    /\ finder = NoFinder

\* build_from_keyset up to its call of build_recursive
BuildFromKeyset ==
    /\ pc = "new"
    /\ \E ks \in Keysets :
        /\ keyset' = ks
        /\ blocks' = reserve(blocks, 0)
        /\ stack' = <<[depth |-> 0, begin |-> 0, end |-> Len(ks), unit_id |-> 0]>>
    /\ pc' = "building"
    /\ UNCHANGED <<used_offsets, assigned, image, da_len, query, iter, bench>>

\* the return of the build_recursive invocation f with the result r.  Only the
\* call made by build_from_keyset (depth 0) has its None propagated with `?`.
Return(f, r) ==
    /\ blocks' = r.blocks
    /\ used_offsets' = r.used_offsets
    /\ assigned' = IF r.accepted = <<>> THEN assigned
                   ELSE Append(assigned, [unit_id |-> f.unit_id,
                                          labels  |-> r.labels,
                                          offset  |-> r.accepted[1]])
    /\ stack' = IF r.tag = "Ok" THEN r.calls \o Tail(stack)
                ELSE IF r.tag = "None" /\ f.depth # 0 THEN Tail(stack)
                ELSE <<>>
    /\ pc' = IF r.tag = "Ok" THEN "building"
             ELSE IF r.tag = "None" THEN (IF f.depth = 0 THEN "none" ELSE "building")
             ELSE r.tag

\* the next build_recursive invocation in depth-first order
BuildRecursive ==
    /\ pc = "building"
    /\ stack # <<>>
    /\ Return(Head(stack),
              build_recursive(blocks, used_offsets, keyset, Head(stack).depth,
                              Head(stack).begin, Head(stack).end, Head(stack).unit_id))
    /\ UNCHANGED <<keyset, image, da_len, query, iter, bench>>

\* the rest of build_from_keyset, and DoubleArray::new on the bytes it returned
Serialize ==
    /\ pc = "building"
    /\ stack = <<>>
    /\ image' = serialize(blocks)
    /\ da_len' = image'.len
    /\ pc' = "built"
    /\ UNCHANGED <<keyset, blocks, used_offsets, stack, assigned, query, iter, bench>>

\* DoubleArray::new on the image or on a truncated copy of it
DoubleArray_new ==
    /\ pc = "built"
    /\ query = NoQuery
    /\ iter = NoIter
    /\ \E n \in (0..MaxTruncLen) \cup {image.len} :
        /\ n <= image.len
        /\ da_len' = n
    /\ UNCHANGED <<pc, keyset, blocks, used_offsets, stack, assigned, image, query, iter, bench>>

\* the return of exact_match_search(key) with the result r
Answer(key, r) ==
    /\ query' = [op |-> "exact", key |-> key, tag |-> r.tag,
                 value |-> IF r.tag = "Some" THEN r.value ELSE 0]
    /\ pc' = IF Aborts(r.tag) THEN "aborted" ELSE pc

\* exact_match_search; a behaviour follows one query on the immutable bytes
ExactMatchSearch ==
    /\ pc = "built"
    /\ query = NoQuery
    /\ iter = NoIter
    /\ \E key \in Probes, overflow_checks \in BOOLEAN :
        Answer(key, exact_match_search_bytes(da, key, overflow_checks))
    /\ UNCHANGED <<keyset, blocks, used_offsets, stack, assigned, image, da_len, iter, bench>>

\* common_prefix_search: the iterator is created
CommonPrefixSearch ==
    /\ pc = "built"
    /\ query = NoQuery
    /\ iter = NoIter
    /\ \E key \in Probes :
        iter' = [op |-> "cps", key |-> key, unit_id |-> 0, key_pos |-> 0,
                 yielded |-> <<>>, last |-> "fresh", calls |-> 0]
    /\ UNCHANGED <<pc, keyset, blocks, used_offsets, stack, assigned, image, da_len, query, bench>>

\* the return of CommonPrefixSearch::next with the result r
Advance(r) ==
    /\ iter' = [iter EXCEPT
                  !.unit_id = r.unit_id,
                  !.key_pos = r.key_pos,
                  !.yielded = IF r.tag = "Some" THEN Append(@, r.item) ELSE @,
                  !.last    = r.tag,
                  !.calls   = @ + 1]
    /\ pc' = IF Aborts(r.tag) THEN "aborted" ELSE pc

\* CommonPrefixSearch::next, also after it has returned None
Next_ ==
    /\ pc = "built"
    /\ iter.op = "cps"
    /\ iter.calls < Len(iter.key) + 2
    /\ Advance(CommonPrefixSearch_next(da, iter.key, iter.unit_id, iter.key_pos))
    /\ UNCHANGED <<keyset, blocks, used_offsets, stack, assigned, image, da_len, query, bench>>

Next ==
    \/ BuildFromKeyset
    \/ BuildRecursive
    \/ Serialize
    \/ DoubleArray_new
    \/ ExactMatchSearch
    \/ CommonPrefixSearch
    \/ Next_

Spec == Init /\ [][Next]_vars

\* the build alone: what the builder does does not depend on later queries
NextBuild ==
    \/ BuildFromKeyset
    \/ BuildRecursive
    \/ Serialize

SpecBuild == Init /\ [][NextBuild]_vars

\* ------------------------------------------------------ a Unit on its own
\* the offsets, labels and flags handed to the setters
Offsets == {0, 1, 255, 256, Pow2_21 - 1, Pow2_21, Pow2_21 + 1, Pow2_21 + 256,
            Pow2_29 - 256, Pow2_29 - 1, Pow2_29}
Labels  == {0, 1, 97, 255}

\* Unit::new
InitUnit ==
    /\ pc = "unit"
    /\ keyset = <<>>
    /\ blocks = <<DoubleArrayBlock_new(0)>>
    /\ used_offsets = {}
    /\ stack = <<>>
    /\ assigned = <<>>
    /\ image = NoBytes
    /\ da_len = 0
    /\ query = NoQuery
    /\ iter = NoIter
    /\ unit = NoSetter
    /\ block = DoubleArrayBlock_new(0)
    /\ finder = NoFinder

\* the return of the setter op(arg) that left the word w; a failed assertion
\* ends the program
Set(op, arg, ok, w) ==
    /\ unit' = [op |-> op, w |-> w, was |-> unit.w, arg |-> arg, ok |-> ok]
    /\ pc' = IF ok THEN pc ELSE "panic"
    /\ UNCHANGED <<keyset, blocks, used_offsets, stack, assigned, image, da_len, query,
                   iter, block, finder>>

SetOffsetDone(o, r) == Set("set_offset", o, r.ok, r.w)

\* Unit::set_offset
SetOffset ==
    /\ pc = "unit"
    /\ \E o \in Offsets : SetOffsetDone(o, set_offset(unit.w, o))

\* Unit::set_has_leaf
SetHasLeaf ==
    /\ pc = "unit"
    /\ \E flag \in BOOLEAN :
          Set("set_has_leaf", IF flag THEN 1 ELSE 0, TRUE, set_has_leaf(unit.w, flag))

\* Unit::set_label
SetLabel ==
    /\ pc = "unit"
    /\ \E l \in Labels : Set("set_label", l, TRUE, set_label(unit.w, l))

\* Unit::set_value
SetValue ==
    /\ pc = "unit"
    /\ \E v \in Values : Set("set_value", v.low, TRUE, set_value(unit.w, v))

NextUnit ==
    \/ SetOffset
    \/ SetHasLeaf
    \/ SetLabel
    \/ SetValue

SpecUnit == InitUnit /\ [][NextUnit]_vars

\* ------------------------------------------- a DoubleArrayBlock on its own
MaxLabels    == 2
MaxNextCalls == 4

\* the ids of the blocks, the cells reserve is called on one at a time, the
\* parents and the label lists of the searches
BlockIds     == {0, 1, 8192}
ReserveCells == {0, 1, 2, 3, 255}
UnitIds      == {0, 1, Pow2_21 + 1}
LabelLists   ==
    {l \in Seqs({0, 1, 2, 3}, MaxLabels) :
        Len(l) >= 1 /\ \A k \in 1..(Len(l) - 1) : l[k] < l[k + 1]}

\* reserve called on the cells lo..hi that are not in `keep` and not reserved
\* yet, in ascending order
RECURSIVE reserve_range(_, _, _, _)
reserve_range(b, keep, lo, hi) ==
    IF lo > hi THEN b
    ELSE IF lo \in keep \/ is_used_at(b, lo) THEN reserve_range(b, keep, lo + 1, hi)
    ELSE reserve_range(block_reserve(b, lo), keep, lo + 1, hi)

\* the same for all the cells of the block, FuelStep cells at a time
RECURSIVE reserve_others(_, _, _)
reserve_others(b, keep, lo) ==
    IF lo >= BLOCK_SIZE THEN b
    ELSE reserve_others(reserve_range(b, keep, lo, Min(lo + FuelStep, BLOCK_SIZE) - 1),
                        keep, lo + FuelStep)

\* DoubleArrayBlock::new, or a block in which reserve has been called on every
\* cell outside ReserveCells
InitBlock ==
    /\ pc = "block"
    /\ keyset = <<>>
    /\ blocks = <<DoubleArrayBlock_new(0)>>
    /\ used_offsets = {}
    /\ stack = <<>>
    /\ assigned = <<>>
    /\ image = NoBytes
    /\ da_len = 0
    /\ query = NoQuery
    /\ iter = NoIter
    /\ unit = NoSetter
    /\ \E id \in BlockIds :
          \/ block = DoubleArrayBlock_new(id)
          \/ block = reserve_others(DoubleArrayBlock_new(id), ReserveCells, 0)
    /\ finder = NoFinder

\* DoubleArrayBlock::reserve on a cell that is not reserved yet
BlockReserve ==
    /\ pc = "block"
    /\ finder = NoFinder
    /\ \E id \in ReserveCells :
          /\ ~is_used_at(block, id)
          /\ block' = block_reserve(block, id)
    /\ UNCHANGED <<prog, unit, finder>>

\* DoubleArrayBlock::find_offset: the iterator is created
FindOffset ==
    /\ pc = "block"
    /\ finder = NoFinder
    /\ \E unit_id \in UnitIds, labels \in LabelLists :
          finder' = [op |-> "find", unit_id |-> unit_id, labels |-> labels,
                     unused_id |-> block.head_unused,
                     yielded |-> <<>>, last |-> "fresh", calls |-> 0]
    /\ UNCHANGED <<prog, unit, block>>

\* the return of FindOffset::next with the result r
Yield(r) ==
    /\ finder' = [finder EXCEPT
                    !.unused_id = IF r.tag \in {"Some", "None"} THEN r.unused_id ELSE @,
                    !.yielded   = IF r.tag = "Some" THEN Append(@, r.item) ELSE @,
                    !.last      = r.tag,
                    !.calls     = @ + 1]
    /\ pc' = IF r.tag \in {"panic", "hang"} THEN r.tag ELSE pc
    /\ UNCHANGED <<keyset, blocks, used_offsets, stack, assigned, image, da_len, query,
                   iter, unit, block>>

\* FindOffset::next, as long as it returns a candidate
FindOffsetNext ==
    /\ pc = "block"
    /\ finder.op = "find"
    /\ finder.last \in {"fresh", "Some"}
    /\ finder.calls < MaxNextCalls
    /\ Yield(FindOffset_next(block, finder.unit_id, finder.labels, finder.unused_id))

NextBlock ==
    \/ BlockReserve
    \/ FindOffset
    \/ FindOffsetNext

SpecBlock == InitBlock /\ [][NextBlock]_vars

\* ------------------------------------------------- vocabulary of the claims

\* a < b as unsigned byte strings
SeqLess(a, b) ==
    \E i \in 1..(Min(Len(a), Len(b)) + 1) :
        /\ \A j \in 1..(i - 1) : a[j] = b[j]
        /\ \/ i > Len(a) /\ i <= Len(b)
           \/ i <= Len(a) /\ i <= Len(b) /\ a[i] < b[i]

IsPrefix(a, b) == Len(a) <= Len(b) /\ \A j \in 1..Len(a) : a[j] = b[j]

Sorted(ks) == \A i \in 1..(Len(ks) - 1) : SeqLess(ks[i].key, ks[i + 1].key)

\* the build preconditions for keys spelled without a terminator
ValidRaw(ks) ==
    /\ Len(ks) > 0
    /\ Sorted(ks)
    /\ \A i \in 1..Len(ks) :
        /\ \A j \in 1..Len(ks[i].key) : ks[i].key[j] # 0
        /\ ks[i].value.msb = 0

\* the build preconditions for keys spelled with one trailing 0x00
ValidTerminated(ks) ==
    /\ Len(ks) > 0
    /\ Sorted(ks)
    /\ \A i \in 1..Len(ks) :
        /\ Len(ks[i].key) >= 1
        /\ \A j \in 1..Len(ks[i].key) : (ks[i].key[j] = 0) <=> (j = Len(ks[i].key))
        /\ ks[i].value.msb = 0

Valid(ks) == ValidRaw(ks) \/ ValidTerminated(ks)

\* the plainest valid keysets: every key has at least one byte before its end
PlainRaw(ks) == ValidRaw(ks) /\ \A i \in 1..Len(ks) : Len(ks[i].key) >= 1
PlainTerminated(ks) == ValidTerminated(ks) /\ \A i \in 1..Len(ks) : Len(ks[i].key) >= 2

\* build has returned or aborted / has returned Some(image)
BuildEnded == pc \in {"built", "aborted", "none", "panic", "hang"}
BuildSome  == pc \in {"built", "aborted"}

\* the DoubleArray in use holds the whole image
Intact == da_len = image.len

\* an exact_match_search has been made / the iterator has ended for the first
\* time, that is, collect() has its whole result
Queried == query.op = "exact"
Collected ==
    /\ iter.op = "cps"
    /\ iter.last \in {"None", "panic", "oob"}
    /\ iter.calls = Len(iter.yielded) + 1

\* C1: a keyset of raw keys (sorted, unique, no 0x00, 31-bit values, not empty)
\* builds to Some(image), and exact_match_search with a raw key of the keyset
\* returns Some of that key's value.  Stated for keysets without the empty key.
C1_RoundTripRaw ==
    PlainRaw(keyset) =>
        /\ BuildEnded => BuildSome
        /\ (Queried /\ Intact) =>
              \A i \in 1..Len(keyset) :
                  query.key = keyset[i].key =>
                      query.tag = "Some" /\ query.value = keyset[i].value.low

\* C2: a keyset of keys that end in one 0x00 builds to Some(image), and
\* exact_match_search with a terminated key of the keyset returns Some of its
\* value.  Stated for keysets without the key that is the terminator alone.
C2_RoundTripTerminated ==
    PlainTerminated(keyset) =>
        /\ BuildEnded => BuildSome
        /\ (Queried /\ Intact) =>
              \A i \in 1..Len(keyset) :
                  query.key = keyset[i].key =>
                      query.tag = "Some" /\ query.value = keyset[i].value.low

\* a query key spelled without a terminator: not empty, no 0x00
RawQuery(s) == Len(s) >= 1 /\ \A j \in 1..Len(s) : s[j] # 0

\* C3: on the image of a valid keyset exact_match_search returns None for every
\* byte string that is not a key of the keyset.  Stated for keysets without the
\* empty key and for query strings without a 0x00 byte.
C3_Absence ==
    (PlainRaw(keyset) /\ Queried /\ Intact /\ RawQuery(query.key)
        /\ \A i \in 1..Len(keyset) : query.key # keyset[i].key)
    => query.tag = "None"

\* the pairs (value, len(key)) of the entries whose key is a prefix of p, by
\* ascending key length (the keys of a valid keyset are distinct, so each length
\* names at most one entry)
PrefixLens(ks, p) ==
    {n \in 0..Len(p) : \E i \in 1..Len(ks) : Len(ks[i].key) = n /\ IsPrefix(ks[i].key, p)}

RECURSIVE PrefixPairs(_, _, _)
PrefixPairs(ks, p, n) ==
    IF n > Len(p) THEN <<>>
    ELSE (IF n \in PrefixLens(ks, p)
          THEN LET i == CHOOSE i \in 1..Len(ks) :
                            Len(ks[i].key) = n /\ IsPrefix(ks[i].key, p)
               IN  << <<ks[i].value.low, n>> >>
          ELSE <<>>) \o PrefixPairs(ks, p, n + 1)

\* C4: on the image of a valid keyset common_prefix_search(p) produces exactly
\* the pairs (value, len(key)) of the keys that are prefixes of p, by ascending
\* length, and then ends.  Stated for keysets without the empty key.
C4_PrefixCorrect ==
    (PlainRaw(keyset) /\ Intact /\ Collected) =>
        /\ iter.last = "None"
        /\ iter.yielded = PrefixPairs(keyset, iter.key, 0)

\* the cell the reader reaches from node 0 along path[1..k], each step being
\* (offset decoded from the current word) XOR byte; -1 when a fetch fails
RECURSIVE reader_walk(_, _, _)
reader_walk(bytes, path, k) ==
    IF k = 0 THEN 0
    ELSE LET n == reader_walk(bytes, path, k - 1)
         IN  IF n = -1 \/ get_unit(bytes, n).tag # "Some" THEN -1
             ELSE BitXor(offset(get_unit(bytes, n).unit), path[k])

NodeLevel(ks, bytes) ==
    \A i \in 1..Len(ks) :
        LET key == ks[i].key
        IN  /\ \A k \in 1..Len(key) :
                  LET c == reader_walk(bytes, key, k)
                  IN  /\ c # -1
                      /\ get_unit(bytes, c).tag = "Some"
                      /\ label(get_unit(bytes, c).unit) = U32(0, key[k])
            /\ LET n == reader_walk(bytes, key, Len(key))
               IN  /\ n # -1
                   /\ get_unit(bytes, n).tag = "Some"
                   /\ has_leaf(get_unit(bytes, n).unit)
                   /\ LET leaf == get_unit(bytes, BitXor(offset(get_unit(bytes, n).unit), 0))
                      IN  /\ leaf.tag = "Some"
                          /\ is_leaf(leaf.unit)
                          /\ value(leaf.unit) = ks[i].value.low

\* C5: in a built image, from node 0 every byte c of a key leads from node n to
\* the word at (n's decoded offset XOR c), whose label is c; where a key ends,
\* n has has_leaf set and the word at (n's decoded offset XOR 0) is a leaf with
\* the key's value.  Stated for keysets without the empty key.
C5_NodeLevel ==
    (pc = "built" /\ PlainRaw(keyset)) => NodeLevel(keyset, image)

\* the offset search of the build_recursive call that runs next
PendingSearch ==
    LET f    == Head(stack)
        scan == scan_labels(keyset, f.depth, f.begin, f.end, <<>>, <<>>)
    IN  IF scan.tag = "Ok" /\ Len(scan.labels) > 0
        THEN find_offset(blocks, used_offsets, f.unit_id,
                         [k \in 1..Len(scan.labels) |-> scan.labels[k].label])
        ELSE [tag |-> "None"]

\* the candidate the same search would take if used_offsets were empty
PendingFirstCandidate ==
    LET f    == Head(stack)
        scan == scan_labels(keyset, f.depth, f.begin, f.end, <<>>, <<>>)
    IN  IF scan.tag = "Ok" /\ Len(scan.labels) > 0
        THEN find_offset(blocks, {}, f.unit_id,
                         [k \in 1..Len(scan.labels) |-> scan.labels[k].label])
        ELSE [tag |-> "None"]

\* C6: across one build no two parents get the same absolute offset, the
\* accepted offsets are exactly the members of used_offsets, and find_offset
\* never returns a member of used_offsets.
C6_OffsetsUnique ==
    /\ \A i, j \in 1..Len(assigned) :
          i # j => assigned[i].offset # assigned[j].offset
    /\ used_offsets = {assigned[i].offset : i \in 1..Len(assigned)}
    /\ (pc = "building" /\ stack # <<>> /\ PendingSearch.tag = "Some")
          => PendingSearch.offset \notin used_offsets

\* C6, its case: offsets have been accepted and the first candidate of the next
\* search is one of them, so the search has to pass over it
C6_Witness ==
    /\ pc = "building"
    /\ stack # <<>>
    /\ Len(assigned) >= 1
    /\ PendingFirstCandidate.tag = "Some"
    /\ PendingFirstCandidate.offset \in used_offsets
    /\ PendingSearch.tag = "Some"

\* C7: a query on a truncated image never aborts on a fetch beyond the bytes:
\* exact_match_search returns None and the iterator ends.  Stated for images of
\* keysets without the empty key and for query keys that are not empty.
C7_NoAbortOnTruncated ==
    PlainRaw(keyset) =>
        /\ (Queried /\ Len(query.key) >= 1) => query.tag # "oob"
        /\ iter.op = "cps" => iter.last # "oob"

\* C8: on the image of a valid keyset exact_match_search returns Some or None,
\* without aborting, for every query byte string.  Stated for keysets without
\* the empty key.
C8_ExactTotal ==
    (PlainRaw(keyset) /\ Queried /\ Intact) => query.tag \in {"Some", "None"}

\* the ways a keyset breaks a build precondition
Unsorted(ks)     == \E i \in 1..(Len(ks) - 1) : SeqLess(ks[i + 1].key, ks[i].key)
Duplicated(ks)   == \E i, j \in 1..Len(ks) : i # j /\ ks[i].key = ks[j].key
InteriorZero(ks) == \E i \in 1..Len(ks) :
                        \E j \in 1..(Len(ks[i].key) - 1) : ks[i].key[j] = 0
Oversized(ks)    == \E i \in 1..Len(ks) : ks[i].value.msb = 1
Invalid(ks) == Unsorted(ks) \/ Duplicated(ks) \/ InteriorZero(ks) \/ Oversized(ks)

\* C9: build returns None for a keyset that violates a build precondition
\* (unsorted keys, duplicate keys, an interior 0x00, a value >= 2^31); it neither
\* aborts nor returns an image.  Stated for keysets without the empty key.
C9_FailureIsNone ==
    (Invalid(keyset) /\ BuildEnded /\ \A i \in 1..Len(keyset) : Len(keyset[i].key) >= 1)
        => pc = "none"

\* C10: build on the empty keyset returns Some(image), on which
\* exact_match_search returns None for every key.
C10_EmptyKeyset ==
    (keyset = <<>> /\ pc # "new") =>
        /\ BuildEnded => BuildSome
        /\ (Queried /\ Intact) => query.tag = "None"

\* --------------------------------------------------- a build as one function
RECURSIVE build_calls(_, _, _, _)

\* the return of the innermost pending build_recursive call with the result r
build_returned(ks, calls, r) ==
    IF r.tag = "Ok"
    THEN build_calls(r.blocks, r.used_offsets, ks, r.calls \o Tail(calls))
    ELSE IF r.tag = "None" /\ Head(calls).depth # 0
    THEN build_calls(r.blocks, r.used_offsets, ks, Tail(calls))
    ELSE [tag |-> r.tag, blocks |-> r.blocks]

\* the pending build_recursive calls, run depth-first until none is left
build_calls(bs, used, ks, calls) ==
    IF calls = <<>>
    THEN [tag |-> "Some", blocks |-> bs]
    ELSE build_returned(ks, calls,
             build_recursive(bs, used, ks, Head(calls).depth, Head(calls).begin,
                             Head(calls).end, Head(calls).unit_id))

\* what build_from_keyset returns once its call of build_recursive has ended
build_result(r) ==
    IF r.tag = "Some" THEN [tag |-> "Some", bytes |-> serialize(r.blocks)]
    ELSE [tag |-> r.tag]

\* DoubleArrayBuilder::build
build(ks) ==
    build_result(build_calls(reserve(<<DoubleArrayBlock_new(0)>>, 0), {}, ks,
                             <<[depth |-> 0, begin |-> 0, end |-> Len(ks), unit_id |-> 0]>>))

\* the keyset ks with every key spelled with the terminator 0x00 appended
Terminated(ks) ==
    [i \in 1..Len(ks) |-> [key |-> Append(ks[i].key, 0), value |-> ks[i].value]]

SameImage(r, bytes) == r.tag = "Some" /\ r.bytes = bytes

\* C11: a keyset of raw keys and the same keyset with 0x00 appended to every
\* key both build, and the two images are equal byte for byte.
C11_SameImage ==
    (pc = "built" /\ PlainRaw(keyset)) => SameImage(build(Terminated(keyset)), image)

\* the 32-bit word whose little-endian encoding is bytes [4i, 4i + 4) of bytes
WordAt(bytes, i) ==
    U32(ByteAt(bytes, (4 * i) + 3) \div 128,
        ByteAt(bytes, 4 * i) + (256 * ByteAt(bytes, (4 * i) + 1))
            + (65536 * ByteAt(bytes, (4 * i) + 2))
            + (16777216 * (ByteAt(bytes, (4 * i) + 3) % 128)))

\* C12: the image is 4 * 256 * (number of blocks) bytes long; bytes
\* [4i, 4i + 4) are the little-endian encoding of the word of cell i mod 256 of
\* block i div 256; a cell that was never reserved has four zero bytes.
C12_ImageLayout ==
    pc = "built" =>
        /\ image.len = 4 * 256 * Len(blocks)
        /\ \A b \in 1..Len(blocks), c \in 0..255 :
              /\ WordAt(image, (256 * (b - 1)) + c) = units_at(blocks[b], c)
              /\ ~is_used_at(blocks[b], c) =>
                    \A k \in 0..3 : ByteAt(image, (4 * ((256 * (b - 1)) + c)) + k) = 0

\* an image that holds a leaf with a value and an internal node with a label
\* and an offset
C12_Witness ==
    /\ pc = "built"
    /\ \E i, j \in 0..255 :
          /\ is_leaf(WordAt(image, i)) /\ value(WordAt(image, i)) > 0
          /\ ~is_leaf(WordAt(image, j))
          /\ label(WordAt(image, j)).low > 0 /\ offset(WordAt(image, j)) > 0

\* an offset the word can hold: below 2^29, and below 2^21 or a multiple of 256
Encodable(o) == o < Pow2_29 /\ (o < Pow2_21 \/ o % Pow2_8 = 0)

\* C13: set_offset(o) on a word that is not a leaf, for an offset o below 2^29
\* that is below 2^21 or has its low 8 bits zero, passes its assertions; after
\* it offset() returns o, and bits 0..7 (the label) and has_leaf are as before.
C13_OffsetRoundTrip ==
    (unit.op = "set_offset" /\ ~is_leaf(unit.was) /\ Encodable(unit.arg)) =>
        /\ unit.ok
        /\ offset(unit.w) = unit.arg
        /\ label(unit.w).low = label(unit.was).low
        /\ has_leaf(unit.w) = has_leaf(unit.was)

\* a short offset written over an extended one, and an extended offset written
\* over a short one, in a word that has a label and has_leaf set
C13_Witness ==
    /\ unit.op = "set_offset" /\ unit.ok /\ ~is_leaf(unit.was)
    /\ has_leaf(unit.was) /\ label(unit.was).low > 0
    /\ offset(unit.was) >= Pow2_21
    /\ unit.arg > 0 /\ unit.arg < Pow2_21

\* the candidate the iterator returned last, as an offset of the whole array,
\* and that offset relative to the parent: the value handed to set_offset
LastOffset   == BitOr(block.id * Pow2_8, finder.yielded[Len(finder.yielded)])
LastRelative == BitXor(finder.unit_id, LastOffset)

\* C14: the value build_recursive hands to set_offset, a candidate of
\* FindOffset XOR the parent's id, is below 2^29 and, when it is 2^21 or more,
\* has its low 8 bits zero, so the 29-bit assertion and the assertions of
\* set_offset hold.  Stated for every candidate of a block with an id below 2^21.
C14_OffsetBound ==
    (finder.op = "find" /\ finder.last = "Some") =>
        /\ LastOffset < Pow2_29
        /\ LastRelative < Pow2_29
        /\ LastRelative >= Pow2_21 => LastRelative % Pow2_8 = 0
        /\ set_offset(Unit_new, LastRelative).ok

\* a candidate whose relative offset needs the extended encoding
C14_Witness ==
    /\ finder.op = "find" /\ finder.last = "Some"
    /\ LastRelative >= Pow2_21
    /\ \E u \in 0..255 :
          /\ ~is_used_at(block, u)
          /\ u < BitXor(LastOffset % Pow2_8, finder.labels[1])

\* the non-empty prefixes of the keys of ks
Prefixes(ks) ==
    UNION {{SubSeq(ks[i].key, 1, n) : n \in 1..Len(ks[i].key)} : i \in 1..Len(ks)}

\* C15: after a build of a non-empty valid keyset of raw keys, num_units is
\* 256 * (number of blocks), num_used_units is 1 (the root) + the number of
\* distinct non-empty prefixes of the keys + the number of keys (one leaf
\* each), and 0 < num_used_units < num_units.
C15_UsedCells ==
    (pc = "built" /\ ValidRaw(keyset) /\ keyset # <<>>) =>
        /\ num_units(blocks) = 256 * Len(blocks)
        /\ num_used_units(blocks) = 1 + Cardinality(Prefixes(keyset)) + Len(keyset)
        /\ 0 < num_used_units(blocks)
        /\ num_used_units(blocks) < num_units(blocks)

\* two keys of two bytes that share their first byte: four nodes and two leaves
C15_Witness ==
    /\ pc = "built" /\ ValidRaw(keyset) /\ Len(keyset) = 2
    /\ Len(keyset[1].key) = 2 /\ Len(keyset[2].key) = 2
    /\ keyset[1].key[1] = keyset[2].key[1]
    /\ num_used_units(blocks) = 6

\* the cell id is not reserved in bs and holds the zero word
CellFree(bs, id) ==
    \/ (id \div BLOCK_SIZE) + 1 > Len(bs)
    \/ /\ ~is_used_at(bs[(id \div BLOCK_SIZE) + 1], id % BLOCK_SIZE)
       /\ units_at(bs[(id \div BLOCK_SIZE) + 1], id % BLOCK_SIZE) = Unit_new

\* the cells of the children of the accepted search a are free in bs and
\* pairwise distinct
ChildrenFree(bs, a) ==
    /\ \A k \in 1..Len(a.labels) : CellFree(bs, BitXor(a.offset, a.labels[k]))
    /\ \A j, k \in 1..Len(a.labels) :
          j # k => BitXor(a.offset, a.labels[j]) # BitXor(a.offset, a.labels[k])

\* C16: for a valid keyset, every cell (offset XOR label) that a build_recursive
\* call reserves for a child is unused and holds the zero word when the call
\* starts, and the cells of one call are distinct, so no cell is reserved twice
\* and the assertions on the child's word hold; no build of raw keys aborts.
C16_NoDoubleOccupancy ==
    [][  /\ (Valid(keyset) /\ assigned' # assigned)
               => ChildrenFree(blocks, assigned'[Len(assigned')])
         /\ (ValidRaw(keyset) /\ keyset # <<>>) => pc' # "panic" ]_vars

\* the labels of the build_recursive call that runs next
PendingLabels ==
    LET f    == Head(stack)
        scan == scan_labels(keyset, f.depth, f.begin, f.end, <<>>, <<>>)
    IN  IF scan.tag = "Ok"
        THEN [k \in 1..Len(scan.labels) |-> scan.labels[k].label]
        ELSE <<>>

\* the candidate of the first unused cell would put a later child on a cell
\* that is reserved already
HeadCandidateCollides(b, labels) ==
    \E k \in 2..Len(labels) :
        is_used_at(b, BitXor(BitXor(b.head_unused, labels[1]), labels[k]))

\* a call with two children is about to run, and the first candidate of its
\* search collides with a reserved cell
C16_Witness ==
    /\ pc = "building" /\ stack # <<>> /\ Valid(keyset)
    /\ Len(PendingLabels) >= 2
    /\ HeadCandidateCollides(blocks[Len(blocks)], PendingLabels)

\* the build_recursive call that runs next is the one made for a terminator:
\* its node is a leaf cell already
OnTerminatorRun ==
    /\ pc = "building" /\ stack # <<>>
    /\ is_leaf(get_unit_mut(blocks, Head(stack).unit_id))

\* C17: for a valid keyset of either spelling, the call made for a terminator
\* run searches no offset, appends no block, reserves and writes nothing; a
\* leaf word never changes; no node is given an offset twice.  Stated for
\* keysets without the empty key.
C17_TerminatorRunUntouched ==
    [][ (PlainRaw(keyset) \/ PlainTerminated(keyset)) =>
          /\ OnTerminatorRun =>
                /\ blocks' = blocks
                /\ used_offsets' = used_offsets
                /\ assigned' = assigned
          /\ \A b \in 1..Len(blocks), c \in 0..(BLOCK_SIZE - 1) :
                is_leaf(units_at(blocks[b], c))
                    => units_at(blocks'[b], c) = units_at(blocks[b], c)
          /\ \A i, j \in 1..Len(assigned') :
                i # j => assigned'[i].unit_id # assigned'[j].unit_id ]_vars

\* the cells of b that are not reserved
Unused(b) == {i \in 0..255 : ~is_used_at(b, i)}

\* the free list of b links the set U in ascending order: head_unused is the
\* smallest member (or 0, with cell 0 reserved, when U is empty), next_unused
\* leads from each member to the next larger one and from the largest to 0,
\* and prev_unused leads back, from the smallest to 255
Links(b, U) ==
    /\ U = {} => (b.head_unused = 0 /\ is_used_at(b, 0))
    /\ U # {} => (b.head_unused \in U /\ \A j \in U : b.head_unused <= j)
    /\ \A i \in U :
          /\ IF \E j \in U : j > i
             THEN /\ next_unused_at(b, i) \in U
                  /\ next_unused_at(b, i) > i
                  /\ \A j \in U : j > i => next_unused_at(b, i) <= j
             ELSE next_unused_at(b, i) = 0
          /\ IF \E j \in U : j < i
             THEN /\ prev_unused_at(b, i) \in U
                  /\ prev_unused_at(b, i) < i
                  /\ \A j \in U : j < i => prev_unused_at(b, i) >= j
             ELSE prev_unused_at(b, i) = 255

\* C18: after any sequence of reserve calls on distinct cells, next_unused from
\* head_unused visits exactly the unused cells in ascending order and ends at
\* the sentinel 0, prev_unused is the inverse link with the sentinel 255 at the
\* first unused cell, and head_unused is the smallest unused cell, or 0 with
\* cell 0 used when the block is full.
C18_FreeList ==
    finder = NoFinder => Links(block, Unused(block))

\* reserve has taken the two ends of the list and a cell out of its middle
C18_Witness ==
    /\ finder = NoFinder
    /\ is_used_at(block, 0) /\ ~is_used_at(block, 1) /\ is_used_at(block, 2)
    /\ ~is_used_at(block, 3) /\ is_used_at(block, 255)
    /\ next_unused_at(block, 1) = 3 /\ prev_unused_at(block, 3) = 1

\* every offset of the block b
EveryOffset(b) == {BitOr(b.id * Pow2_8, o) : o \in 0..255}

\* reserve has been called on b at most five times
NearlyNew(b) == Cardinality(DOMAIN b.is_used) <= 5

\* C19: the iterator of a block yields at most one candidate per unused cell
\* and then returns None, and the loop of find_offset over the block ends when
\* every candidate is in used_offsets (the latter stated for a block with at
\* most five reserved cells).
C19_SearchFinite ==
    finder.op = "find" =>
        /\ Len(finder.yielded) <= Cardinality(Unused(block))
        /\ (finder.calls = 0 /\ NearlyNew(block)) =>
              block_first_offset(block, finder.unit_id, finder.labels,
                                 EveryOffset(block), block.head_unused, {}).tag = "None"

\* the base b passes is_valid_offset's test of the relative offset
Narrow(b, unit_id, base) ==
    LET rel == BitXor(unit_id, BitOr(b.id * Pow2_8, base))
    IN  rel < Pow2_21 \/ rel % Pow2_8 = 0

\* the base fits: the cell of every label is unused
Fits(b, labels, base) ==
    \A k \in 1..Len(labels) : ~is_used_at(b, BitXor(base, labels[k]))

\* the smallest member of the non-empty set S of numbers
Least(S) == CHOOSE m \in S : \A n \in S : m <= n

\* the first candidate is none if B is empty and the member want(B) otherwise
FirstIs(B, want(_)) ==
    IF B = {} THEN finder.last = "None"
    ELSE finder.last = "Some" /\ finder.yielded[1] = want(B)

\* the bases that fit, and those of them that is_valid_offset accepts
FittingBases  == {base \in 0..255 : Fits(block, finder.labels, base)}
AcceptedBases == {base \in FittingBases : Narrow(block, finder.unit_id, base)}

\* the base of the smallest unused cell among the bases B
OfLeastCell(B) == BitXor(Least({BitXor(base, finder.labels[1]) : base \in B}),
                         finder.labels[1])

\* C20 as stated: the first candidate is the smallest base that fits, and
\* there is none only when no base fits (for a block with at most five
\* reserved cells and a parent for which every base passes the test of the
\* relative offset)
C20_SmallestBase ==
    (/\ finder.op = "find" /\ finder.calls = 1 /\ NearlyNew(block)
     /\ \A base \in 0..255 : Narrow(block, finder.unit_id, base))
        => FirstIs(FittingBases, Least)

\* C20: the first candidate is u XOR l0 for the smallest unused cell u whose
\* base fits and passes the test of the relative offset, and there is none
\* only when there is no such cell
C20_FirstFit ==
    (finder.op = "find" /\ finder.calls = 1) => FirstIs(AcceptedBases, OfLeastCell)

\* the first candidate was found after passing over unused cells, and it is
\* not the smallest base that fits
C20_Witness ==
    /\ finder.op = "find" /\ finder.calls = 1 /\ finder.last = "Some"
    /\ Len(finder.labels) >= 2
    /\ BitXor(finder.yielded[1], finder.labels[1]) > block.head_unused
    /\ finder.yielded[1] > Least(FittingBases)

\* the pairs are at most Len(key), their lengths increase strictly and lie in
\* 1..Len(key)
FinitePass(it) ==
    /\ Len(it.yielded) <= Len(it.key)
    /\ \A k \in 1..Len(it.yielded) :
          /\ it.yielded[k][2] \in 1..Len(it.key)
          /\ k >= 2 => it.yielded[k - 1][2] < it.yielded[k][2]

\* C21: once CommonPrefixSearch::next has returned None, every later call
\* returns None too, and over its whole life the iterator yields at most
\* Len(key) pairs with strictly increasing lengths in 1..Len(key).  Stated for
\* the whole image of a valid keyset of raw keys without the empty key and for
\* probes without 0x00.
C21_StaysTerminated ==
    [][ (/\ PlainRaw(keyset) /\ Intact
         /\ iter.op = "cps" /\ RawQuery(iter.key) /\ iter' # iter) =>
          /\ iter.last = "None" => iter'.last = "None"
          /\ FinitePass(iter') ]_vars

====
